---- MODULE Spec2Model ----
(***************************************************************************)
(* Scriptura: a report directory (config.yaml, report.html, sections/,     *)
(* style/, ...) and the commands init, lint and build that act on it, in   *)
(* the two implementations of the repository:                              *)
(*   "single"  src/scriptura.py          (click, one file)                 *)
(*   "pkg"     src/src/scriptura/cli.py  (typer, package)                  *)
(*                                                                         *)
(* Texts are sequences of tokens, a token being a pair <<kind, value>> of  *)
(* strings; str.replace on a text is the replacement of tokens.  File      *)
(* names are sequences of ASCII codes, so that lower(), the numeric-prefix *)
(* regular expression and Python's string comparison are computed.         *)
(***************************************************************************)
EXTENDS Integers, Sequences, FiniteSets

VARIABLES
    exists,     \* the report directory exists
    secdir,     \* the directory sections/ exists
    secs,       \* sections/: file name -> text, for the *.html files in it
    alt,        \* <directory of --html-out>/sections/: file name -> text
    wrapper,    \* report.html, a File
    config,     \* config.yaml, parsed: a record
    style,      \* the names of the files in style/
    user,       \* the other files of the directory
    outHtml,    \* the assembled HTML file, a File
    outPdf,     \* the PDF file exists
    last,       \* the command that ran last, with its arguments and environment
    exit,       \* its exit status
    errors,     \* the errors it recorded, in order
    warnings,   \* the warnings it printed, in order
    found,      \* the value the section discoverer returned
    assembled   \* the value assemble_html returned

vars == <<exists, secdir, secs, alt, wrapper, config, style, user,
          outHtml, outPdf, last, exit, errors, warnings, found, assembled>>

fsvars == <<exists, secdir, secs, alt, wrapper, config, style, user>>

----------------------------------------------------------------------------
(* Bounds of the model.                                                    *)

MaxFiles == 3      \* files in sections/
MaxList == 2       \* entries of the config's explicit section list
MaxHeads == 4      \* headings in a section file
MaxHtml == 3       \* tokens of a wrapper made of links

----------------------------------------------------------------------------
(* Sequences.                                                              *)

Min(a, b) == IF a < b THEN a ELSE b

Range(s) == {s[i] : i \in 1..Len(s)}

SeqsUpTo(S, n) == UNION {[1..k -> S] : k \in 0..n}

\* The orders in which a directory can list the files of S.
Perms(S) == {p \in [1..Cardinality(S) -> S] : Range(p) = S}

\* Python's < on strings (and on POSIX paths of one directory): by code point.
SeqLess(a, b) ==
    \E i \in 1..(Min(Len(a), Len(b)) + 1) :
        /\ \A j \in 1..(i - 1) : a[j] = b[j]
        /\ \/ i > Len(a) /\ i <= Len(b)
           \/ i <= Len(a) /\ i <= Len(b) /\ a[i] < b[i]

RECURSIVE InsertStable(_, _, _)
\* x put after every element of the sorted s that is not greater than it;
\* R is the order, as the set of the pairs <<a, b>> with a < b.
InsertStable(x, s, R) ==
    IF s = <<>> THEN <<x>>
    ELSE IF <<x, s[1]>> \in R THEN <<x>> \o s
    ELSE <<s[1]>> \o InsertStable(x, Tail(s), R)

RECURSIVE SortedStable(_, _)
\* Python's sorted(): stable, so equal elements keep the order of s.
SortedStable(s, R) ==
    IF s = <<>> THEN <<>>
    ELSE InsertStable(s[Len(s)], SortedStable(SubSeq(s, 1, Len(s) - 1), R), R)

----------------------------------------------------------------------------
(* File names.                                                             *)

DotHtml == <<46, 104, 116, 109, 108>>                   \* ".html"

N01a == <<48, 49, 45, 97>> \o DotHtml                   \* "01-a.html"
N02b == <<48, 50, 45, 98>> \o DotHtml                   \* "02-b.html"
Nx == <<120>> \o DotHtml                                \* "x.html"
NX == <<88>> \o DotHtml                                 \* "X.html"
N10c == <<49, 48, 45, 99>> \o DotHtml                   \* "10-c.html"
N2d == <<50, 95, 100>> \o DotHtml                       \* "2_d.html"

Names == {N01a, N02b, Nx, NX, N10c, N2d}

\* The files init writes into sections/.
NIntroduction ==                                        \* "01-introduction.html"
    <<48, 49, 45, 105, 110, 116, 114, 111, 100, 117, 99, 116, 105, 111, 110>> \o DotHtml
NMethodology ==                                         \* "02-methodology.html"
    <<48, 50, 45, 109, 101, 116, 104, 111, 100, 111, 108, 111, 103, 121>> \o DotHtml
NResults ==                                             \* "03-results.html"
    <<48, 51, 45, 114, 101, 115, 117, 108, 116, 115>> \o DotHtml

IsDigit(c) == c >= 48 /\ c <= 57

\* str.lower() on ASCII.
lower(name) == [i \in 1..Len(name) |->
                   IF name[i] >= 65 /\ name[i] <= 90 THEN name[i] + 32 ELSE name[i]]

\* The length of the run of digits a name starts with.
DigitRun(name) ==
    CHOOSE k \in 0..Len(name) :
        /\ \A i \in 1..k : IsDigit(name[i])
        /\ k = Len(name) \/ ~IsDigit(name[k + 1])

RECURSIVE IntOf(_)
\* int() of a string of digits.
IntOf(ds) == IF ds = <<>> THEN 0
             ELSE 10 * IntOf(SubSeq(ds, 1, Len(ds) - 1)) + (ds[Len(ds)] - 48)

\* re.match(r"^(\d+)[-_]", name)
PrefixMatch(name) ==
    LET k == DigitRun(name)
    IN  k >= 1 /\ k < Len(name) /\ name[k + 1] \in {45, 95}

Sentinel == 1000000

\* key(p) of discover_sections: (numeric prefix or sentinel, lowered name).
key(name) ==
    <<IF PrefixMatch(name) THEN IntOf(SubSeq(name, 1, DigitRun(name))) ELSE Sentinel,
      lower(name)>>

\* Python's < on the key tuples.
KeyLess(a, b) ==
    \/ key(a)[1] < key(b)[1]
    \/ key(a)[1] = key(b)[1] /\ SeqLess(key(a)[2], key(b)[2])

\* discover_sections of scriptura.py on a directory listing.
discover_sections(listing) ==
    SortedStable(listing, {ab \in Range(listing) \X Range(listing) : KeyLess(ab[1], ab[2])})

\* sorted() of the paths of a directory listing.
SortedPaths(listing) ==
    SortedStable(listing, {ab \in Range(listing) \X Range(listing) : SeqLess(ab[1], ab[2])})

\* find_sections of cli.py on a directory listing.
find_sections(listing) == SortedPaths(listing)

----------------------------------------------------------------------------
(* Texts.                                                                  *)

NL == <<"text", "NL">>                        \* "\n"
HeadEnd == <<"tag", "</head>">>
BodyEnd == <<"tag", "</body>">>
Marker == <<"tag", "<section id=end">>        \* '<section id="end"'
SectionOpen == <<"tag", "<section">>
SectionClose == <<"tag", "</section>">>
Heading(n) == <<"tag", <<"h1", "h2", "h3", "h4">>[n]>>
Text(t) == <<"text", t>>
Href(u) == <<"href", u>>                      \* 'href="u"'
Token(k) == <<"ph", k>>                       \* a bracketed token, "[TITLE]"
Boot(cfg) == <<"boot", cfg.title>>            \* the <script> that sets window.__CONFIG__

File(text) == [present |-> TRUE, text |-> text]
NoFile == [present |-> FALSE, text |-> <<>>]

RECURSIVE Concat(_)
Concat(ss) == IF ss = <<>> THEN <<>> ELSE ss[1] \o Concat(Tail(ss))

RECURSIVE Join(_)
\* "\n".join(ss)
Join(ss) == IF ss = <<>> THEN <<>>
            ELSE IF Len(ss) = 1 THEN ss[1]
            ELSE ss[1] \o <<NL>> \o Join(Tail(ss))

\* The value v as text: nothing when empty, a bracketed token when it reads as one.
AsText(v) == IF v = "" THEN <<>>
             ELSE IF v \in {"[TITLE]", "[SUBTITLE]", "[PREPARED]", "[KICKER]", "[AUTHOR]", "[DATE]"}
                  THEN <<Token(v)>> ELSE <<Text(v)>>

\* html.replace(old, new): every old token becomes the tokens new.
Replace(html, old, new) ==
    Concat([i \in 1..Len(html) |-> IF html[i] = old THEN new ELSE <<html[i]>>])

\* html.replace(old, new, 1): the first old token only.
ReplaceFirst(html, old, new) ==
    IF old \notin Range(html) THEN html
    ELSE LET i == CHOOSE k \in 1..Len(html) :
                      html[k] = old /\ \A j \in 1..(k - 1) : html[j] # old
         IN  SubSeq(html, 1, i - 1) \o new \o SubSeq(html, i + 1, Len(html))

----------------------------------------------------------------------------
(* Assembly of the wrapper (scriptura.py).                                 *)

PLACEHOLDERS == << <<"[TITLE]", "title">>, <<"[SUBTITLE]", "subtitle">>,
                   <<"[PREPARED]", "prepared">>, <<"[KICKER]", "kicker">> >>

RECURSIVE ApplyFrom(_, _, _)
ApplyFrom(html, cfg, i) ==
    IF i > Len(PLACEHOLDERS) THEN html
    ELSE ApplyFrom(Replace(html, Token(PLACEHOLDERS[i][1]), AsText(cfg[PLACEHOLDERS[i][2]])),
                   cfg, i + 1)

apply_placeholders(html, cfg) == ApplyFrom(html, cfg, 1)

inject_boot_config(html, cfg) == Replace(html, HeadEnd, <<Boot(cfg), NL, HeadEnd>>)

\* theme.get(k), None read as "".
Get(theme, k) == IF k \in DOMAIN theme THEN theme[k] ELSE ""

\* The mapping of override_theme_links, in the order the dict is walked.
ThemeMapping(theme) ==
    << <<"style/general.css", Get(theme, "general")>>,
       <<"style/numbering.css", Get(theme, "numbering")>>,
       <<"style/footer.css", Get(theme, "footer")>>,
       <<"style/cover.css", Get(theme, "cover")>>,
       <<"style/last-page.css",
         IF Get(theme, "last") # "" THEN Get(theme, "last") ELSE Get(theme, "last-page")>> >>

RECURSIVE OverrideFrom(_, _, _)
OverrideFrom(html, mapping, i) ==
    IF i > Len(mapping) THEN html
    ELSE OverrideFrom(IF mapping[i][2] # ""
                      THEN Replace(html, Href(mapping[i][1]), <<Href(mapping[i][2])>>)
                      ELSE html,
                      mapping, i + 1)

override_theme_links(html, theme) == OverrideFrom(html, ThemeMapping(theme), 1)

\* What assemble_html hands to override_theme_links.
BeforeTheme(cfg, text) == inject_boot_config(apply_placeholders(text, cfg), cfg)

assemble_html(cfg, text) ==
    IF DOMAIN cfg.theme # {}
    THEN override_theme_links(BeforeTheme(cfg, text), cfg.theme)
    ELSE BeforeTheme(cfg, text)

----------------------------------------------------------------------------
(* Section files.                                                          *)

\* A section file: hs are the levels of its headings, in document order;
\* mode says where its <section> is ("wrap": around everything, "outside":
\* an empty one before everything, "none": there is none); txt is whether
\* the file holds any text: without, its headings are empty elements.
Doc(mode, hs, txt) ==
    LET body == [i \in 1..Len(hs) |-> Heading(hs[i])]
                    \o (IF txt THEN <<Text("p")>> ELSE <<>>)
    IN  CASE mode = "wrap" -> <<SectionOpen>> \o body \o <<SectionClose>>
          [] mode = "outside" -> <<SectionOpen, SectionClose>> \o body
          [] OTHER -> body

\* The section files lint is run on: every placing of the <section> around a
\* few headings, every sequence of headings inside one <section>, and two
\* files of two <section>s.
Docs ==
    {Doc(mode, hs, txt) : mode \in {"wrap", "outside", "none"},
                          hs \in {<<>>, <<1>>, <<2>>, <<3>>, <<1, 2>>, <<1, 3>>, <<2, 1>>},
                          txt \in BOOLEAN}
    \cup {Doc("wrap", hs, TRUE) : hs \in SeqsUpTo(1..4, MaxHeads)}
    \cup {Doc("wrap", <<>>, TRUE) \o Doc("wrap", <<1>>, TRUE),
          Doc("wrap", <<1>>, TRUE) \o Doc("wrap", <<3>>, TRUE)}

Label(name) ==
    CASE name = N01a -> "01-a" [] name = N02b -> "02-b" [] name = Nx -> "x"
      [] name = NX -> "X" [] name = N10c -> "10-c" [] name = N2d -> "2_d"
      [] name = NIntroduction -> "01-introduction"
      [] name = NMethodology -> "02-methodology"
      [] OTHER -> "03-results"

\* A section file whose text tells which file it is; 2_d.html holds a [TITLE].
Body(name) ==
    <<SectionOpen, Heading(1)>>
        \o (IF name = N2d THEN <<Token("[TITLE]")>> ELSE <<>>)
        \o <<Text(Label(name)), SectionClose>>

----------------------------------------------------------------------------
(* The state before any command.                                           *)

Call(cmd, impl) ==
    [cmd |-> cmd, impl |-> impl, force |-> FALSE, pdf |-> FALSE, playwright |-> FALSE,
     bs4 |-> FALSE, lxml |-> FALSE, listing |-> <<>>, existed |-> FALSE, pdfOut |-> FALSE,
     out |-> "default"]

NoTheme == [k \in {} |-> ""]

\* A theme: the keys given "-" are left out of the mapping.
Theme(g, c, l, lp) ==
    LET raw == [k \in {"general", "cover", "last", "last-page"} |->
                   CASE k = "general" -> g [] k = "cover" -> c
                     [] k = "last" -> l [] OTHER -> lp]
    IN  [k \in {x \in DOMAIN raw : raw[x] # "-"} |-> raw[k]]

Themes ==
    {Theme(g, c, l, lp) : g \in {"-", "https://cdn/g.css", "style/cover.css"},
                          c \in {"-", "https://cdn/c.css"},
                          l \in {"-", "", "https://cdn/l.css"},
                          lp \in {"-", "https://cdn/lp.css"}}

\* config.yaml, parsed; present is whether the file is there.
Config(title, sections, theme) ==
    [title |-> title, subtitle |-> "Sub", prepared |-> "", kicker |-> "K",
     sections |-> sections, theme |-> theme, present |-> TRUE]

\* No config.yaml: what read_config of cli.py makes of it.
NoConfig ==
    [title |-> "", subtitle |-> "", prepared |-> "", kicker |-> "",
     sections |-> <<>>, theme |-> NoTheme, present |-> FALSE]

NoResult ==
    /\ outHtml = NoFile
    /\ outPdf = FALSE
    /\ last = Call("none", "none")
    /\ exit = 0
    /\ errors = <<>>
    /\ warnings = <<>>
    /\ found = <<>>
    /\ assembled = <<>>

CssFiles == {"general.css", "numbering.css", "footer.css", "cover.css", "last-page.css"}

ScaffoldWrapper ==
    <<Token("[TITLE]"), Href("style/general.css"), Href("style/numbering.css"),
      Href("style/footer.css"), Href("style/cover.css"), Href("style/last-page.css"),
      HeadEnd, Token("[KICKER]"), Token("[TITLE]"), Token("[SUBTITLE]"),
      Token("[PREPARED]"), Marker, BodyEnd>>

----------------------------------------------------------------------------
(* build.                                                                  *)

Warn(kind, what) == <<kind, what>>

\* The text of the file the list entry s names: the one under the report
\* directory, else the one under the directory of --html-out, else none.
Resolve(s) ==
    IF s \in DOMAIN secs THEN <<secs[s]>>
    ELSE IF s \in DOMAIN alt THEN <<alt[s]>>
    ELSE <<>>

RECURSIVE UntilMissing(_)
UntilMissing(list) ==
    IF list = <<>> \/ Resolve(list[1]) = <<>> THEN <<>>
    ELSE <<list[1]>> \o UntilMissing(Tail(list))

\* Existing, were the loop left at the first missing file.
ExistingUntilMissing(list) == UntilMissing(list)

\* The entries of the list whose file exists (sections_abs), in order.
Existing(list) == SelectSeq(list, LAMBDA s : Resolve(s) # <<>>)

Missing(list) == SelectSeq(list, LAMBDA s : Resolve(s) = <<>>)

\* Step 1 of build: the config's list, else the discovered one.
SectionList(cfg, listing) ==
    IF cfg.sections # <<>> THEN cfg.sections ELSE discover_sections(listing)

\* Step 4 of build: the texts of the existing files, joined by newlines.
Combined(list) ==
    LET ex == Existing(list)
    IN  Join([i \in 1..Len(ex) |-> Resolve(ex[i])[1]])

\* InsertSections, were the replacements not limited to the first occurrence.
InsertSectionsEvery(html, combined) ==
    IF Marker \in Range(html)
    THEN Replace(html, Marker, combined \o <<NL, Marker>>)
    ELSE Replace(html, BodyEnd, combined \o <<NL, BodyEnd>>)

\* Step 5 of build: before the end marker, else before </body>.
InsertSections(html, combined) ==
    IF Marker \in Range(html)
    THEN ReplaceFirst(html, Marker, combined \o <<NL, Marker>>)
    ELSE ReplaceFirst(html, BodyEnd, combined \o <<NL, BodyEnd>>)

\* The values of --html-out: the default, the wrapper, a section file.
DefaultHtmlOut == "build/report.tmp.html"
HtmlOuts == {DefaultHtmlOut, "report.html", "sections/10-c.html"}

\* The longest text a build reads when --html-out names one of its inputs.
MaxText == 16

\* write_text(p, s), p being the file of sections/ called name.
WriteSection(name, text) ==
    [n \in DOMAIN secs \cup {name} |-> IF n = name THEN text ELSE secs[n]]

\* build of scriptura.py with --html-out html_out, --config and --out being
\* the defaults.  The PDF export is always asked for.  The directory of an
\* html_out other than the default holds no sections/ with files of its own.
BuildTo(html_out) ==
    \E listing \in Perms(DOMAIN secs), playwright \in BOOLEAN :
        LET call == [Call("build", "single") EXCEPT
                        !.pdf = TRUE, !.playwright = playwright, !.out = html_out]
            list == SectionList(config, listing)
            cfg_injected == [config EXCEPT !.sections = <<>>]
        IN  IF ~config.present \/ ~wrapper.present
            THEN \* read_text of config.yaml, or of report.html, raises
                 /\ last' = call
                 /\ exit' = 1
                 /\ found' = IF config.present THEN list ELSE <<>>
                 /\ errors' = <<>>
                 /\ warnings' = <<>>
                 /\ UNCHANGED <<fsvars, outHtml, outPdf, assembled>>
            ELSE /\ html_out # DefaultHtmlOut =>
                        /\ alt = <<>>
                        /\ Len(wrapper.text) <= MaxText
                        /\ \A n \in DOMAIN secs : Len(secs[n]) <= MaxText
                 /\ assembled' = assemble_html(cfg_injected, wrapper.text)
                 /\ found' = list
                 /\ LET text == InsertSections(assembled', Combined(list))
                    IN  CASE html_out = "report.html" ->
                                 /\ wrapper' = File(text)
                                 /\ UNCHANGED <<secdir, secs, outHtml>>
                          [] html_out = "sections/10-c.html" ->
                                 /\ secdir' = TRUE
                                 /\ secs' = WriteSection(N10c, text)
                                 /\ UNCHANGED <<wrapper, outHtml>>
                          [] OTHER ->
                                 /\ outHtml' = File(text)
                                 /\ UNCHANGED <<secdir, secs, wrapper>>
                 /\ outPdf' = (outPdf \/ playwright)
                 /\ warnings' = [i \in 1..Len(Missing(list)) |->
                                    Warn("missing", Label(Missing(list)[i]))]
                                \o (IF playwright THEN <<>>
                                    ELSE <<Warn("no-pdf", "playwright")>>)
                 /\ errors' = <<>>
                 /\ exit' = 0
                 /\ last' = [call EXCEPT !.pdfOut = playwright]
                 /\ UNCHANGED <<exists, alt, config, style, user>>

\* build of scriptura.py, with its default options.
Build == BuildTo(DefaultHtmlOut)

\* The mapping of substitute_placeholders; meta is the config's, with no
\* author and no date, and there are no extra placeholders.
SubstMapping(cfg) ==
    << <<"[TITLE]", cfg.title>>, <<"[SUBTITLE]", cfg.subtitle>>,
       <<"[AUTHOR]", "">>, <<"[DATE]", "">> >>

RECURSIVE SubstFrom(_, _, _)
SubstFrom(text, mapping, i) ==
    IF i > Len(mapping) THEN text
    ELSE SubstFrom(Replace(text, Token(mapping[i][1]), AsText(mapping[i][2])),
                   mapping, i + 1)

substitute_placeholders(text, cfg) == SubstFrom(text, SubstMapping(cfg), 1)

\* render_report: the package's template report_wrapper.html.j2, with the
\* texts of the sections put, in order, before its end marker.
render_report(sections_html, cfg) ==
    <<HeadEnd>> \o AsText(cfg.title) \o Concat(sections_html) \o <<Marker, BodyEnd>>

\* The values of --out-dir: the default, and the report directory itself
\* (build run inside it).
DefaultOutDir == "dist"
OutDirs == {DefaultOutDir, "."}

\* build of cli.py with --out-dir out_dir.
CliBuildTo(out_dir) ==
    \E listing \in Perms(DOMAIN secs), pdf \in BOOLEAN, playwright \in BOOLEAN :
        LET call == [Call("build", "pkg") EXCEPT
                        !.pdf = pdf, !.playwright = playwright, !.out = out_dir]
            sections == find_sections(listing)
            sections_html == [i \in 1..Len(sections) |->
                                 substitute_placeholders(secs[sections[i]], config)]
        IN  IF sections = <<>>
            THEN /\ last' = call
                 /\ exit' = 1
                 /\ found' = sections
                 /\ errors' = <<Warn("no-sections", "sections")>>
                 /\ warnings' = <<>>
                 /\ UNCHANGED <<fsvars, outHtml, outPdf, assembled>>
            ELSE /\ found' = sections
                 /\ IF out_dir = DefaultOutDir
                    THEN \* rmtree(dist), then report.html and report.pdf in it
                         /\ outHtml' = File(render_report(sections_html, config))
                         /\ outPdf' = (pdf /\ playwright)
                         /\ UNCHANGED fsvars
                    ELSE \* rmtree of the report directory and all it holds,
                         \* then report.html and report.pdf in the new one
                         /\ exists' = TRUE
                         /\ secdir' = FALSE
                         /\ secs' = <<>>
                         /\ alt' = <<>>
                         /\ config' = NoConfig
                         /\ style' = {}
                         /\ wrapper' = File(render_report(sections_html, config))
                         /\ user' = IF pdf /\ playwright THEN {"report.pdf"} ELSE {}
                         /\ outHtml' = NoFile
                         /\ outPdf' = FALSE
                 /\ errors' = IF pdf /\ ~playwright
                              THEN <<Warn("no-pdf", "playwright")>> ELSE <<>>
                 /\ warnings' = <<>>
                 /\ exit' = IF pdf /\ ~playwright THEN 1 ELSE 0
                 /\ last' = [call EXCEPT !.pdfOut = (pdf /\ playwright)]
                 /\ UNCHANGED assembled

\* build of cli.py, with its default options.
CliBuild == CliBuildTo(DefaultOutDir)

\* The files sections/ may hold when build runs, and the files a list may name.
BuildNames == {N10c, N2d}
ListNames == {N02b, N10c, N2d}

AltBody(name) == <<Text("alt"), Text(Label(name))>>

Wrappers ==
    {ScaffoldWrapper,
     <<Token("[TITLE]"), HeadEnd, Text("cover"), BodyEnd>>,
     <<HeadEnd, Text("cover")>>,
     <<HeadEnd, Text("cover"), Marker, Text("mid"), Marker, BodyEnd>>,
     <<HeadEnd, BodyEnd, Text("late"), BodyEnd>>}

InitBuild ==
    /\ exists = TRUE
    /\ secdir = TRUE
    /\ \E S \in SUBSET BuildNames : secs = [n \in S |-> Body(n)]
    /\ alt \in {<<>>, [n \in {N02b} |-> AltBody(n)]}
    /\ wrapper \in {File(t) : t \in Wrappers}
    /\ config \in {Config("T", list, th) :
                      list \in SeqsUpTo(ListNames, MaxList),
                      th \in {Theme("https://cdn/g.css", "-", "-", "-")}}
    /\ style = CssFiles
    /\ user = {}
    /\ NoResult

NextBuild == Build \/ CliBuild

SpecBuild == InitBuild /\ [][NextBuild]_vars

\* The build that ran last wrote the assembled HTML.
Written ==
    /\ last.cmd = "build"
    /\ last.impl = "single" => wrapper.present
    /\ last.impl = "pkg" => found # <<>>

\* The list entry s names a file that exists, and the text of that file.
FileExists(s) == s \in DOMAIN secs \/ s \in DOMAIN alt
ContentOf(s) == IF s \in DOMAIN secs THEN secs[s] ELSE alt[s]

\* The wrapper as build fills it, before any section is put in.
Base ==
    IF last.impl = "single"
    THEN assemble_html([config EXCEPT !.sections = <<>>], wrapper.text)
    ELSE render_report(<<>>, config)

\* The element the sections go before.
Anchor(base) == IF Marker \in Range(base) THEN Marker ELSE BodyEnd

WithoutNL(text) == SelectSeq(text, LAMBDA t : t # NL)

\* out is base with one block put immediately before the first anchor of
\* base, and the block is the texts, in order, with only newlines between.
InsertedBefore(out, base, texts) ==
    /\ Anchor(base) \in Range(base)
    /\ LET k == CHOOSE i \in 1..Len(base) :
                    base[i] = Anchor(base) /\ \A j \in 1..(i - 1) : base[j] # Anchor(base)
           n == Len(out) - Len(base)
       IN  /\ n >= 0
           /\ SubSeq(out, 1, k - 1) = SubSeq(base, 1, k - 1)
           /\ SubSeq(out, k + n, Len(out)) = SubSeq(base, k, Len(base))
           /\ WithoutNL(SubSeq(out, k, k + n - 1)) = Concat(texts)

\* How many times the text block occurs in the text out.
Occurrences(block, out) ==
    Cardinality({i \in 1..(Len(out) - Len(block) + 1) :
                    SubSeq(out, i, i + Len(block) - 1) = block})

\* The entries of the list that name an existing file, and those that do not.
Present(list) == SelectSeq(list, FileExists)
Absent(list) == SelectSeq(list, LAMBDA s : ~FileExists(s))

PutIn(s) ==
    IF last.impl = "pkg" THEN substitute_placeholders(ContentOf(s), config)
    ELSE ContentOf(s)

MissingWarnings == SelectSeq(warnings, LAMBDA w : w[1] = "missing")

C9_NoPlaywrightStillSuccess ==
    Written /\ last.pdf /\ ~last.playwright =>
        /\ outHtml.present
        /\ ~last.pdfOut
        /\ \E w \in Range(warnings) : w[1] = "no-pdf"
        /\ exit = 0

----------------------------------------------------------------------------
(* lint.                                                                   *)

Err(kind, what) == <<kind, what>>

Headings == {Heading(n) : n \in 1..4}

\* soup.find("section"): the tokens inside the first <section> of the text.
Inside(doc) ==
    LET open == CHOOSE i \in 1..Len(doc) :
                    doc[i] = SectionOpen /\ \A j \in 1..(i - 1) : doc[j] # SectionOpen
        closes == {i \in (open + 1)..Len(doc) : doc[i] = SectionClose}
        close == IF closes = {} THEN Len(doc) + 1
                 ELSE CHOOSE i \in closes : \A j \in closes : i <= j
    IN  SubSeq(doc, open + 1, close - 1)

\* get_text(strip=True) of tokens is not empty.
HasText(tokens) == \E i \in 1..Len(tokens) : tokens[i][1] \in {"text", "ph"}

\* The checks of scriptura.py on one file, with BeautifulSoup.
LintFileSoup(name, doc) ==
    IF SectionOpen \notin Range(doc)
    THEN <<Err("no-section", Label(name))>>
    ELSE (IF Heading(1) \notin Range(Inside(doc))
          THEN <<Err("no-h1", Label(name))>> ELSE <<>>)
         \o (IF ~HasText(Inside(doc))
             THEN <<Err("no-text", Label(name))>> ELSE <<>>)

\* LintFilePlain, were the second check an elif.
LintFilePlainElif(name, doc) ==
    IF SectionOpen \notin Range(doc) THEN <<Err("no-section", Label(name))>>
    ELSE IF Heading(1) \notin Range(doc) THEN <<Err("no-h1", Label(name))>>
    ELSE <<>>

\* The checks of scriptura.py on one file, without BeautifulSoup.
LintFilePlain(name, doc) ==
    (IF SectionOpen \notin Range(doc) THEN <<Err("no-section", Label(name))>> ELSE <<>>)
    \o (IF Heading(1) \notin Range(doc) THEN <<Err("no-h1", Label(name))>> ELSE <<>>)

\* The exit status of lint.
LintExit(errs) == IF errs # <<>> THEN 1 ELSE 0

RECURSIVE FilesUntilError(_, _)
FilesUntilError(files, bs4) ==
    IF files = <<>> THEN <<>>
    ELSE LET e == IF bs4 THEN LintFileSoup(files[1], secs[files[1]])
                  ELSE LintFilePlain(files[1], secs[files[1]])
         IN  IF e # <<>> THEN e ELSE FilesUntilError(Tail(files), bs4)

\* LintFiles, were lint to stop at the first file with an error.
LintFilesFirstError(files, bs4) == FilesUntilError(files, bs4)

\* The errors of the files, in the order in which lint walks them.
LintFiles(files, bs4) ==
    Concat([i \in 1..Len(files) |->
               IF bs4 THEN LintFileSoup(files[i], secs[files[i]])
               ELSE LintFilePlain(files[i], secs[files[i]])])

\* lint of scriptura.py.
Lint ==
    \E listing \in Perms(DOMAIN secs), bs4 \in BOOLEAN :
        LET call == [Call("lint", "single") EXCEPT !.listing = listing, !.bs4 = bs4]
            errs == IF ~secdir THEN <<Err("no-sections-dir", "sections")>>
                    ELSE (IF listing = <<>> THEN <<Err("empty", "sections")>> ELSE <<>>)
                         \o LintFiles(listing, bs4)
        IN  /\ last' = call
            /\ found' = IF secdir THEN discover_sections(listing) ELSE <<>>
            /\ warnings' = IF secdir /\ SortedPaths(listing) # discover_sections(listing)
                           THEN <<Warn("order", "sections")>> ELSE <<>>
            /\ errors' = errs
            /\ exit' = LintExit(errs)
            /\ UNCHANGED <<fsvars, outHtml, outPdf, assembled>>

\* level of cli.py.
level(h) == CASE h = Heading(1) -> 1 [] h = Heading(2) -> 2
              [] h = Heading(3) -> 3 [] OTHER -> 4

\* hs of cli.py: the headings of the whole document, in order.
HeadingsOf(doc) == SelectSeq(doc, LAMBDA t : t \in Headings)

RECURSIVE HierarchyNoGuard(_, _, _)
\* Hierarchy, without the test that there is a heading before.
HierarchyNoGuard(hs, i, lastLevel) ==
    IF i > Len(hs) THEN 0
    ELSE IF level(hs[i]) > lastLevel + 1 THEN 1
    ELSE HierarchyNoGuard(hs, i + 1, level(hs[i]))

RECURSIVE HierarchyNoBreak(_, _, _)
\* Hierarchy, without the break: every skip is counted.
HierarchyNoBreak(hs, i, lastLevel) ==
    IF i > Len(hs) THEN 0
    ELSE (IF lastLevel # 0 /\ level(hs[i]) > lastLevel + 1 THEN 1 ELSE 0)
         + HierarchyNoBreak(hs, i + 1, level(hs[i]))

RECURSIVE Hierarchy(_, _, _)
\* The loop of cli.py over hs from position i, last being the level before.
Hierarchy(hs, i, lastLevel) ==
    IF i > Len(hs) THEN 0
    ELSE IF lastLevel # 0 /\ level(hs[i]) > lastLevel + 1 THEN 1
    ELSE Hierarchy(hs, i + 1, level(hs[i]))

\* The checks of cli.py on one file; lxml is whether the parser is there.
CliLintFile(name, doc, lxml) ==
    IF ~lxml THEN <<Err("parse", Label(name))>>
    ELSE (IF Heading(1) \notin Range(HeadingsOf(doc))
          THEN <<Err("no-h1", Label(name))>> ELSE <<>>)
         \o [i \in 1..Hierarchy(HeadingsOf(doc), 1, 0) |-> Err("skip", Label(name))]

must_css == <<"general.css", "numbering.css", "footer.css", "cover.css", "last-page.css">>

\* lint of cli.py.
CliLint ==
    \E listing \in Perms(DOMAIN secs), lxml \in BOOLEAN :
        LET call == [Call("lint", "pkg") EXCEPT !.listing = listing, !.lxml = lxml]
            sections == find_sections(listing)
            css == SelectSeq(must_css, LAMBDA c : c \notin style)
            errs == [i \in 1..Len(css) |-> Err("css-missing", css[i])]
                    \o Concat([i \in 1..Len(sections) |->
                                  CliLintFile(sections[i], secs[sections[i]], lxml)])
        IN  /\ last' = call
            /\ found' = sections
            /\ warnings' = <<>>
            /\ errors' = errs
            /\ exit' = LintExit(errs)
            /\ UNCHANGED <<fsvars, outHtml, outPdf, assembled>>

Good == Doc("wrap", <<1>>, TRUE)
Bare == Doc("none", <<>>, TRUE)

\* sections/ is absent, or empty, or holds 10-c.html with any text, alone or
\* beside a 2_d.html that is well formed or has no markup at all.
InitLint ==
    /\ exists = TRUE
    /\ \/ secdir = FALSE /\ secs = <<>>
       \/ secdir = TRUE /\ secs = <<>>
       \/ /\ secdir = TRUE
          /\ \E d \in Docs :
                 \/ secs = [n \in {N10c} |-> d]
                 \/ \E e \in {Good, Bare} :
                        secs = [n \in {N10c, N2d} |-> IF n = N10c THEN d ELSE e]
    /\ alt = <<>>
    /\ wrapper = File(ScaffoldWrapper)
    /\ config = Config("T", <<>>, NoTheme)
    /\ style \in {CssFiles, CssFiles \ {"cover.css"}}
    /\ user = {}
    /\ NoResult

NextLint == Lint \/ CliLint

SpecLint == InitLint /\ [][NextLint]_vars

\* The text has no heading at all.
NoHeading(doc) == \A i \in 1..Len(doc) : doc[i] \notin Headings

\* How many errors of the kind lint recorded for the file.
ErrorsFor(name, kind) == Len(SelectSeq(errors, LAMBDA e : e = Err(kind, Label(name))))

\* lint gave the file up before it looked for headings: scriptura.py with
\* BeautifulSoup on a file with no <section>, cli.py when the parser fails.
GivenUp(name) ==
    \/ last.impl = "single" /\ last.bs4 /\ SectionOpen \notin Range(secs[name])
    \/ last.impl = "pkg" /\ ~last.lxml

HoldsH1AndText(doc, i, k) ==
    /\ i < k
    /\ doc[i] = SectionOpen /\ doc[k] = SectionClose
    /\ \A m \in (i + 1)..(k - 1) : doc[m] \notin {SectionOpen, SectionClose}
    /\ \E m \in (i + 1)..(k - 1) : doc[m] = Heading(1)
    /\ \E m \in (i + 1)..(k - 1) : doc[m][1] = "text"

\* The text is well formed: a <section> of it holds an h1 and text.
WellFormed(doc) == \E i, k \in 1..Len(doc) : HoldsH1AndText(doc, i, k)

\* The text is well formed, and by its first <section>.
WellFormedFirst(doc) ==
    \E i, k \in 1..Len(doc) :
        HoldsH1AndText(doc, i, k) /\ \A m \in 1..(i - 1) : doc[m] # SectionOpen

\* The levels of the headings of the text, in order.
Levels(doc) == [i \in 1..Len(HeadingsOf(doc)) |-> level(HeadingsOf(doc)[i])]

\* Some heading is more than one level deeper than the heading before it.
SkipsAfterFirst(hs) == \E i \in 2..Len(hs) : hs[i] > hs[i - 1] + 1

\* The same, the first heading counted as following level 0.
SkipsAnywhere(hs) == SkipsAfterFirst(hs) \/ (hs # <<>> /\ hs[1] > 1)

\* C4 (as claimed): when every section file is well formed (there is at least
\* one), lint records no error and exits with status 0.
C4_WellFormedPasses ==
    last.cmd = "lint" /\ DOMAIN secs # {}
      /\ (\A f \in DOMAIN secs : WellFormed(secs[f])) =>
        errors = <<>> /\ exit = 0

\* C4 (amended): when in every section file (there is at least one) the first
\* <section> holds an h1 and text, lint records no error and exits with status
\* 0; for cli.py provided also that style/ holds the five stylesheets, the
\* parser is there, and in no file a heading is more than one level deeper
\* than the heading before it.
C4_WellFormedPassesGivenStyle ==
    last.cmd = "lint" /\ DOMAIN secs # {}
      /\ (\A f \in DOMAIN secs : WellFormedFirst(secs[f]))
      /\ (last.impl = "pkg" =>
              /\ CssFiles \subseteq style
              /\ last.lxml
              /\ \A f \in DOMAIN secs : ~SkipsAfterFirst(Levels(secs[f]))) =>
        errors = <<>> /\ exit = 0

C4_Witness ==
    /\ last.cmd = "lint"
    /\ last.impl = "pkg"
    /\ DOMAIN secs = {N10c, N2d}
    /\ secs[N10c] = Doc("wrap", <<2, 1, 2, 3>>, TRUE)
    /\ errors = <<>>
    /\ exit = 0

C10_SkipReportedFromFirst ==
    last.cmd = "lint" /\ last.impl = "pkg" /\ last.lxml =>
        \A f \in DOMAIN secs :
            ErrorsFor(f, "skip") = IF SkipsAnywhere(Levels(secs[f])) THEN 1 ELSE 0

\* C10 (amended): for every section file it parses, cli.py's lint reports one
\* hierarchy violation when some heading other than the first is more than one
\* level deeper than the heading before it, and none otherwise: the level of
\* the first heading is never a violation.
C10_SkipReportedAfterFirst ==
    last.cmd = "lint" /\ last.impl = "pkg" /\ last.lxml =>
        \A f \in DOMAIN secs :
            ErrorsFor(f, "skip") = IF SkipsAfterFirst(Levels(secs[f])) THEN 1 ELSE 0

C10_Witness ==
    /\ last.cmd = "lint"
    /\ last.impl = "pkg"
    /\ last.lxml
    /\ N10c \in DOMAIN secs
    /\ Levels(secs[N10c]) = <<1, 3, 1, 3>>
    /\ ErrorsFor(N10c, "skip") = 1

----------------------------------------------------------------------------
(* init.                                                                   *)

\* SAMPLE_SECTIONS of scriptura.py, and the one section of cli.py: each a
\* <section> holding an h1 and a paragraph.
SAMPLE_SECTIONS ==
    [n \in {NIntroduction, NMethodology, NResults} |-> Doc("wrap", <<1>>, TRUE)]

CliSample == [n \in {NIntroduction} |-> Doc("wrap", <<1>>, TRUE)]

\* SCAFFOLD_CONFIG of scriptura.py; cfg of cli.py's init (its meta).
SCAFFOLD_CONFIG ==
    [title |-> "Deneme Raporu", subtitle |-> "Modular report with Paged.js",
     prepared |-> "Yazar", kicker |-> "Internal Report",
     sections |-> <<>>, theme |-> NoTheme, present |-> TRUE]

CliConfig ==
    [title |-> "New Report", subtitle |-> "", prepared |-> "", kicker |-> "",
     sections |-> <<>>, theme |-> NoTheme, present |-> TRUE]

\* Refuses, were an existing target always overwritten.
RefusesNever(existed, force) == FALSE

\* init stops: the target exists and --force was not given.
Refuses(existed, force) == existed /\ ~force

\* init of scriptura.py; inRepo is whether git finds the target inside a
\* work tree already.
InitCmd ==
    \E force \in BOOLEAN, git \in BOOLEAN, inRepo \in BOOLEAN :
        LET call == [Call("init", "single") EXCEPT !.force = force, !.existed = exists]
        IN  /\ last' = call
            /\ errors' = <<>>
            /\ warnings' = <<>>
            /\ UNCHANGED <<found, assembled>>
            /\ IF Refuses(exists, force)
               THEN /\ exit' = 1
                    /\ UNCHANGED <<fsvars, outHtml, outPdf>>
               ELSE /\ exit' = 0
                    /\ exists' = TRUE
                    /\ secdir' = TRUE
                    /\ secs' = SAMPLE_SECTIONS
                    /\ alt' = <<>>
                    /\ wrapper' = File(ScaffoldWrapper)
                    /\ config' = SCAFFOLD_CONFIG
                    /\ style' = {}
                    /\ user' = {".gitignore"} \cup (IF git /\ ~inRepo THEN {".git"} ELSE {})
                    /\ outHtml' = NoFile
                    /\ outPdf' = FALSE

\* init of cli.py: it has no --force.
CliInit ==
    \E inRepo \in BOOLEAN :
        LET call == [Call("init", "pkg") EXCEPT !.existed = exists]
        IN  /\ last' = call
            /\ errors' = <<>>
            /\ warnings' = <<>>
            /\ UNCHANGED <<found, assembled>>
            /\ IF Refuses(exists, FALSE)
               THEN /\ exit' = 1
                    /\ UNCHANGED <<fsvars, outHtml, outPdf>>
               ELSE /\ exit' = 0
                    /\ exists' = TRUE
                    /\ secdir' = TRUE
                    /\ secs' = CliSample
                    /\ alt' = <<>>
                    /\ wrapper' = NoFile
                    /\ config' = CliConfig
                    /\ style' = {}
                    /\ user' = IF inRepo THEN {} ELSE {".git"}
                    /\ UNCHANGED <<outHtml, outPdf>>

\* The target is absent, or it exists and holds anything.
InitInit ==
    /\ last = Call("none", "none")
    /\ exit = 0
    /\ errors = <<>>
    /\ warnings = <<>>
    /\ found = <<>>
    /\ assembled = <<>>
    /\ alt = <<>>
    /\ \/ /\ exists = FALSE
          /\ secdir = FALSE
          /\ secs = <<>>
          /\ wrapper = NoFile
          /\ config = NoConfig
          /\ style = {}
          /\ user = {}
          /\ outHtml = NoFile
          /\ outPdf = FALSE
       \/ /\ exists = TRUE
          /\ \/ secdir = FALSE /\ secs = <<>>
             \/ secdir = TRUE /\ secs \in {<<>>, SAMPLE_SECTIONS, [n \in {Nx} |-> Bare]}
          /\ wrapper \in {NoFile, File(ScaffoldWrapper), File(<<Text("mine"), BodyEnd>>)}
          /\ config \in {SCAFFOLD_CONFIG, Config("T", <<Nx>>, NoTheme)}
          /\ style \in {{}, CssFiles}
          /\ user \in SUBSET {"notes.txt", ".gitignore"}
          /\ outHtml \in {NoFile, File(<<Text("old")>>)}
          /\ outPdf \in BOOLEAN

NextInit == InitCmd \/ CliInit

SpecInit == InitInit /\ [][NextInit]_vars

\* C8: init on a target that exists, without --force, ends at once with a
\* non-zero status and leaves the directory and all it holds as they were; an
\* existing directory is removed and scaffolded anew only with --force.
C8_InitRefusesExisting ==
    [][ last'.cmd = "init" /\ exists =>
            IF last'.force
            THEN /\ exit' = 0
                 /\ secs' = SAMPLE_SECTIONS
                 /\ wrapper' = File(ScaffoldWrapper)
                 /\ config' = SCAFFOLD_CONFIG
                 /\ style' = {}
                 /\ user' \subseteq {".gitignore", ".git"}
                 /\ outHtml' = NoFile /\ outPdf' = FALSE
            ELSE /\ exit' # 0
                 /\ UNCHANGED <<fsvars, outHtml, outPdf>> ]_vars

C8_Witness ==
    /\ last.cmd = "init"
    /\ last.existed
    /\ ~last.force
    /\ exit = 1
    /\ "notes.txt" \in user
    /\ DOMAIN secs = {Nx}
    /\ outHtml.present

----------------------------------------------------------------------------
(* Section discovery, on its own.                                          *)

InitDiscover ==
    /\ exists = TRUE
    /\ secdir = TRUE
    /\ \E S \in SUBSET Names :
           /\ Cardinality(S) <= MaxFiles
           /\ secs = [n \in S |-> Body(n)]
    /\ alt = <<>>
    /\ wrapper = File(ScaffoldWrapper)
    /\ config = Config("T", <<>>, NoTheme)
    /\ style = CssFiles
    /\ user = {}
    /\ NoResult

DiscoverSections ==
    \E listing \in Perms(DOMAIN secs) :
        /\ found' = discover_sections(listing)
        /\ last' = [Call("discover_sections", "single") EXCEPT !.listing = listing]
        /\ UNCHANGED <<fsvars, outHtml, outPdf, exit, errors, warnings, assembled>>

FindSections ==
    \E listing \in Perms(DOMAIN secs) :
        /\ found' = find_sections(listing)
        /\ last' = [Call("find_sections", "pkg") EXCEPT !.listing = listing]
        /\ UNCHANGED <<fsvars, outHtml, outPdf, exit, errors, warnings, assembled>>

NextDiscover == DiscoverSections \/ FindSections

SpecDiscover == InitDiscover /\ [][NextDiscover]_vars

\* The files of sections/ in the order of the key, ties broken by file name.
CanonicalLess(a, b) ==
    \/ KeyLess(a, b)
    \/ key(a) = key(b) /\ SeqLess(a, b)

\* C2: discovery returns each file of sections/ exactly once, ordered by
\* (numeric prefix or sentinel, lowered file name), ties broken by file name,
\* whatever the order in which the directory lists the files.
C2_DiscoveryCanonical ==
    last.cmd \in {"discover_sections", "find_sections"} =>
        /\ Len(found) = Cardinality(DOMAIN secs)
        /\ Range(found) = DOMAIN secs
        /\ \A i, j \in 1..Len(found) : i < j => CanonicalLess(found[i], found[j])

----------------------------------------------------------------------------
(* The theme override, on its own.                                         *)

LinkTokens ==
    {Href("style/general.css"), Href("style/cover.css"), Href("style/last-page.css"),
     Href("other.css"), HeadEnd, Text("a")}

InitTheme ==
    /\ exists = TRUE
    /\ secdir = TRUE
    /\ secs = <<>>
    /\ alt = <<>>
    /\ wrapper \in {File(t) : t \in SeqsUpTo(LinkTokens, MaxHtml)}
    /\ config \in {Config("T", <<>>, th) : th \in Themes}
    /\ style = CssFiles
    /\ user = {}
    /\ NoResult

AssembleHtml ==
    /\ wrapper.present
    /\ assembled' = assemble_html(config, wrapper.text)
    /\ last' = Call("assemble_html", "single")
    /\ UNCHANGED <<fsvars, outHtml, outPdf, exit, errors, warnings, found>>

NextTheme == AssembleHtml

SpecTheme == InitTheme /\ [][NextTheme]_vars

\* The override location the theme gives the local stylesheet u, "" when none.
OverrideOf(theme, u) ==
    LET m == ThemeMapping(theme)
    IN  IF \E i \in 1..Len(m) : m[i][1] = u
        THEN m[CHOOSE i \in 1..Len(m) : m[i][1] = u][2]
        ELSE ""

\* C6: applying the theme replaces the href of each known stylesheet link that
\* has an override by that override location, and leaves every other href and
\* all other text of the HTML as it was.
C6_ThemeOnlyKnownLinks ==
    last.cmd = "assemble_html" /\ DOMAIN config.theme # {} =>
        LET before == BeforeTheme(config, wrapper.text)
        IN  /\ Len(assembled) = Len(before)
            /\ \A i \in 1..Len(before) :
                   assembled[i] =
                       IF before[i][1] = "href" /\ OverrideOf(config.theme, before[i][2]) # ""
                       THEN Href(OverrideOf(config.theme, before[i][2]))
                       ELSE before[i]

----------------------------------------------------------------------------
(* init, then lint.                                                        *)

\* The target is as init may find it; init and lint run on it in any order.
NextScaffold == InitCmd \/ CliInit \/ Lint \/ CliLint

SpecScaffold == InitInit /\ [][NextScaffold]_vars

\* init has just scaffolded the directory, and nothing ran since.
Scaffolded(impl) == last.cmd = "init" /\ last.impl = impl /\ exit = 0

\* C11: lint run on the directory init has just scaffolded, by the same
\* implementation and with its HTML parser available, records no error and
\* ends with status zero.
C11_ScaffoldIsLintClean ==
    [][ /\ \E impl \in {"single", "pkg"} : Scaffolded(impl) /\ last'.impl = impl
        /\ last'.cmd = "lint"
        /\ last'.impl = "pkg" => last'.lxml
        => errors' = <<>> /\ exit' = 0 ]_vars

----------------------------------------------------------------------------
(* build, with any output options.                                         *)

BuildAnywhere == \E html_out \in HtmlOuts : BuildTo(html_out)

CliBuildAnywhere == \E out_dir \in OutDirs : CliBuildTo(out_dir)

\* A report directory with images/ and diagrams/, which build is run inside.
InitFrame ==
    /\ exists = TRUE
    /\ secdir = TRUE
    /\ \E S \in SUBSET BuildNames : secs = [n \in S |-> Body(n)]
    /\ alt = <<>>
    /\ wrapper \in {NoFile, File(ScaffoldWrapper), File(<<HeadEnd, Text("cover"), BodyEnd>>)}
    /\ config \in {Config("T", list, NoTheme) : list \in SeqsUpTo({N10c}, 1)}
    /\ style = CssFiles
    /\ user = {"images", "diagrams"}
    /\ NoResult

NextFrame == BuildAnywhere \/ CliBuildAnywhere

SpecFrame == InitFrame /\ [][NextFrame]_vars

\* The inputs of a report: sections/, report.html, config.yaml, style/, and
\* images/ and diagrams/ among the other files.
inputs == <<secdir, secs, wrapper, config, style, user>>

\* C12: whatever its output options, a build leaves the inputs of the report
\* as they were; and the build of cli.py that finds no section file ends with
\* status 1 and leaves the output files as they were too.
C12_BuildKeepsInputs ==
    [][ last'.cmd = "build" =>
            /\ UNCHANGED inputs
            /\ last'.impl = "pkg" /\ DOMAIN secs = {} =>
                   exit' = 1 /\ UNCHANGED <<outHtml, outPdf>> ]_vars

====
